---- MODULE Spec2Model ----
(***************************************************************************)
(* Model of the `ssh` command of mist-cli (src/main.go, sshCmd.Run): the   *)
(* authenticated handshake, the socket dial with its one redirect hop, the *)
(* raw-mode terminal, the four concurrent tasks sharing the socket and the *)
(* deferred teardown.                                                      *)
(***************************************************************************)
EXTENDS Integers, Sequences, FiniteSets, TLC

(* ---------------------------------------------------------------- bounds *)
MaxBody == 2
MaxGeom == 2

(* ------------------------------------------------------ program constants *)
pongWait == 10

pingPeriod == (pongWait * 9) \div 10

(* ------------------------------------------------------------ strings *)
(* Strings are sequences of one-character strings. *)
StrSlash == <<"/">>
StrHttp == <<"h", "t", "t", "p">>
StrHttpScheme == <<"h", "t", "t", "p", ":", "/", "/">>
StrHttpsScheme == <<"h", "t", "t", "p", "s", ":", "/", "/">>
StrApi == <<"a", "p", "i", "/", "v", "2", "/", "m", "a", "c", "h", "i", "n", "e", "s", "/">>
StrAction == <<"/", "a", "c", "t", "i", "o", "n", "s", "/", "s", "s", "h">>

HasPrefix(s, p) == Len(s) >= Len(p) /\ SubSeq(s, 1, Len(p)) = p

HasSuffix(s, p) == Len(s) >= Len(p) /\ SubSeq(s, Len(s) - Len(p) + 1, Len(s)) = p

AddSlash(s) == IF ~HasSuffix(s, StrSlash) THEN s \o StrSlash ELSE s

AddScheme(s) == IF ~HasPrefix(s, StrHttp) THEN StrHttpScheme \o s ELSE s

NormalizeServer(s) == AddScheme(AddSlash(s))

RequestPath(s, m) == NormalizeServer(s) \o StrApi \o m \o StrAction

(* ------------------------------------------------------------- inputs *)
BodyChars == {"a", "/"}

RECURSIVE SeqsUpTo(_, _)
SeqsUpTo(S, n) == IF n = 0 THEN {<<>>}
                  ELSE LET shorter == SeqsUpTo(S, n - 1)
                       IN shorter \cup {Append(q, c) : q \in shorter, c \in S}

ServerPrefixes == {<<>>, StrHttp, StrHttpScheme, StrHttpsScheme, <<"h", "t">>}

ServerInputs == {p \o b : p \in ServerPrefixes, b \in SeqsUpTo(BodyChars, MaxBody)}

SessionServer == <<"a">>

SessionMachine == <<"m">>

Machines == {<<"m">>, <<"m", "1">>}

Token == "tok"

Tasks == {"resize", "read", "write", "ping"}

GoOrder == <<"resize", "read", "write", "ping">>

\* The terminal geometries {columns, rows}, enumerated.
Geoms == 1..MaxGeom

NoGeom == 0

NoFrame == [kind |-> "none", geom |-> NoGeom]

ResizeFrame(g) == [kind |-> "resize", geom |-> g]

PingFrame == [kind |-> "ping", geom |-> NoGeom]

DataFrame == [kind |-> "data", geom |-> NoGeom]

DialResults == {"ok", "redirect", "redirectNoLocation", "fail"}

(* -------------------------------------------------------------- state *)
VARIABLES
  pc,          \* position of sshCmd.Run
  outcome,     \* "none" | "reported" | "panic"
  cfgServer,   \* the configured server address, as getServer returns it
  machine,     \* args[0]
  server,      \* the normalized server address
  path,        \* the session request path
  req,         \* "unset" | "nil" | "ok"
  dialResp,    \* response of the last dial: "none" | "redirect" | "redirectNoLocation"
  dialErr,     \* err after the last dial
  dialTokens,  \* Authorization header of every dial made, in order
  conn,        \* "nil" | "open" | "closed"
  closeCount,  \* number of c.Close() calls
  terminal,    \* "cooked" | "raw"
  rawCount,    \* number of successful SetRaw calls
  resetCount,  \* number of current.Reset() calls
  defers,      \* the deferred calls of Run, last registered first
  teardown,    \* the deferred calls already run, in order
  resizeFailed,\* the initial updateTerminalSize returned an error
  done,        \* the done channel has been fired
  fireCount,   \* number of tasks that fired done
  task,        \* state of each of the four goroutines
  goNext,      \* index in GoOrder of the next goroutine to start
  writeMutex,  \* "free" or the task holding writeMutex
  firstFrame,  \* the first frame written to the socket
  startGeom,   \* the geometry sampled by the initial updateTerminalSize
  geom,        \* the current geometry of the local terminal
  sentGeom,    \* the geometry the resize watcher last sent
  silence      \* time since the last inbound frame, saturating at pongWait

vars == <<pc, outcome, cfgServer, machine, server, path, req, dialResp, dialErr,
          dialTokens, conn, closeCount, terminal, rawCount, resetCount, defers,
          teardown, resizeFailed, done, fireCount, task, goNext, writeMutex,
          firstFrame, startGeom, geom, sentGeom, silence>>

preVars == <<cfgServer, machine, server, path, req>>

dialVars == <<dialResp, dialErr, dialTokens>>

termVars == <<terminal, rawCount, resetCount>>

taskVars == <<done, fireCount, task, goNext, writeMutex, firstFrame, startGeom,
              sentGeom, silence>>

InitCommon ==
  /\ pc = "ctx"
  /\ outcome = "none"
  /\ server = <<>>
  /\ path = <<>>
  /\ req = "unset"
  /\ dialResp = "none"
  /\ dialErr = FALSE
  /\ dialTokens = <<>>
  /\ conn = "nil"
  /\ closeCount = 0
  /\ terminal = "cooked"
  /\ rawCount = 0
  /\ resetCount = 0
  /\ defers = <<>>
  /\ teardown = <<>>
  /\ resizeFailed = FALSE
  /\ done = FALSE
  /\ fireCount = 0
  /\ task = [t \in Tasks |-> "unstarted"]
  /\ goNext = 1
  /\ writeMutex = "free"
  /\ firstFrame = NoFrame
  /\ startGeom = NoGeom
  /\ geom \in Geoms
  /\ sentGeom = NoGeom
  /\ silence = 0

Init == InitCommon /\ cfgServer = SessionServer /\ machine = SessionMachine

NormInit == InitCommon /\ cfgServer \in ServerInputs /\ machine \in Machines

(* ------------------------------------------------- sshCmd.Run, pre-session *)
\* A return statement: the deferred calls run next.
Return(how) == /\ pc' = "unwind"
               /\ outcome' = how

SetMistContext ==
  /\ pc = "ctx"
  /\ \E ok \in BOOLEAN :
       IF ok THEN pc' = "server" /\ UNCHANGED outcome
             ELSE Return("reported")
  /\ UNCHANGED <<preVars, dialVars, conn, closeCount, termVars, defers, teardown,
                 resizeFailed, taskVars, geom>>

GetServer ==
  /\ pc = "server"
  /\ \E ok \in BOOLEAN :
       IF ok THEN /\ server' = NormalizeServer(cfgServer)
                  /\ path' = RequestPath(cfgServer, machine)
                  /\ pc' = "newreq"
                  /\ UNCHANGED outcome
             ELSE /\ Return("reported")
                  /\ UNCHANGED <<server, path>>
  /\ UNCHANGED <<cfgServer, machine, req, dialVars, conn, closeCount, termVars,
                 defers, teardown, resizeFailed, taskVars, geom>>

\* http.NewRequest: its error is overwritten by getToken's before it is read.
NewRequest ==
  /\ pc = "newreq"
  /\ \E ok \in BOOLEAN : req' = IF ok THEN "ok" ELSE "nil"
  /\ pc' = "token"
  /\ UNCHANGED <<outcome, cfgServer, machine, server, path, dialVars, conn,
                 closeCount, termVars, defers, teardown, resizeFailed, taskVars, geom>>

\* getToken, then req.Header.Add on the request, nil or not.
GetToken ==
  /\ pc = "token"
  /\ \E ok \in BOOLEAN :
       IF ~ok THEN Return("reported")
       ELSE IF req = "nil" THEN Return("panic")
       ELSE pc' = "do" /\ UNCHANGED outcome
  /\ UNCHANGED <<preVars, dialVars, conn, closeCount, termVars, defers, teardown,
                 resizeFailed, taskVars, geom>>

ClientDo ==
  /\ pc = "do"
  /\ \E ok \in BOOLEAN :
       IF ok THEN /\ pc' = "readall"
                  /\ defers' = <<"bodyClose">> \o defers
                  /\ UNCHANGED outcome
             ELSE /\ Return("reported")
                  /\ UNCHANGED defers
  /\ UNCHANGED <<preVars, dialVars, conn, closeCount, termVars, teardown,
                 resizeFailed, taskVars, geom>>

ReadAll ==
  /\ pc = "readall"
  /\ \E ok \in BOOLEAN :
       IF ok THEN pc' = "dial1" /\ UNCHANGED outcome
             ELSE Return("reported")
  /\ UNCHANGED <<preVars, dialVars, conn, closeCount, termVars, defers, teardown,
                 resizeFailed, taskVars, geom>>

\* One websocket.DefaultDialer.Dial with the given Authorization header.
Dial(tok, res) ==
  /\ dialTokens' = Append(dialTokens, tok)
  /\ conn' = IF res = "ok" THEN "open" ELSE "nil"
  /\ dialErr' = (res # "ok")
  /\ dialResp' = IF res \in {"redirect", "redirectNoLocation"} THEN res ELSE "none"

FirstDial ==
  /\ pc = "dial1"
  /\ \E res \in DialResults :
       /\ Dial(Token, res)
       /\ pc' = IF res \in {"redirect", "redirectNoLocation"} THEN "dial2" ELSE "dialerr"
  /\ UNCHANGED <<outcome, preVars, closeCount, termVars, defers, teardown,
                 resizeFailed, taskVars, geom>>

RedialAgain ==
  /\ pc = "dial2"
  /\ IF dialResp = "redirectNoLocation"
     THEN /\ Return("panic")
          /\ UNCHANGED <<dialVars, conn>>
     ELSE /\ \E res \in DialResults :
               /\ Dial(Token, res)
               /\ pc' = IF res \in {"redirect", "redirectNoLocation"} /\ Len(dialTokens) < 2
                        THEN "dial2" ELSE "dialerr"
          /\ UNCHANGED outcome
  /\ UNCHANGED <<preVars, closeCount, termVars, defers, teardown,
                 resizeFailed, taskVars, geom>>

\* resp.StatusCode == 302: resp.Location() with its error dropped, then the
\* one re-dial; u is nil when the response has no Location header.
Redial ==
  /\ pc = "dial2"
  /\ IF dialResp = "redirectNoLocation"
     THEN /\ Return("panic")
          /\ UNCHANGED <<dialVars, conn>>
     ELSE /\ \E res \in DialResults : Dial(Token, res)
          /\ pc' = "dialerr"
          /\ UNCHANGED outcome
  /\ UNCHANGED <<preVars, closeCount, termVars, defers, teardown,
                 resizeFailed, taskVars, geom>>

CheckDialErrNoDefer ==
  /\ pc = "dialerr"
  /\ IF dialErr THEN Return("reported") ELSE pc' = "setraw" /\ UNCHANGED outcome
  /\ UNCHANGED <<preVars, dialVars, conn, closeCount, termVars, defers, teardown,
                 resizeFailed, taskVars, geom>>

\* if err != nil { return }; defer c.Close()
CheckDialErr ==
  /\ pc = "dialerr"
  /\ IF dialErr THEN /\ Return("reported")
                     /\ UNCHANGED defers
                ELSE /\ pc' = "setraw"
                     /\ defers' = <<"connClose">> \o defers
                     /\ UNCHANGED outcome
  /\ UNCHANGED <<preVars, dialVars, conn, closeCount, termVars, teardown,
                 resizeFailed, taskVars, geom>>

(* ---------------------------------------------------- sshCmd.Run, session *)
\* console.Current(), SetRaw (panic on failure), defer current.Reset(),
\* done := make(chan bool).
SetRawNoDefer ==
  /\ pc = "setraw"
  /\ \E ok \in BOOLEAN :
       IF ok THEN /\ terminal' = "raw"
                  /\ rawCount' = rawCount + 1
                  /\ pc' = "resize"
                  /\ UNCHANGED <<outcome, defers>>
             ELSE /\ Return("panic")
                  /\ UNCHANGED <<terminal, rawCount, defers>>
  /\ UNCHANGED <<preVars, dialVars, conn, closeCount, resetCount, teardown,
                 resizeFailed, taskVars, geom>>

SetRaw ==
  /\ pc = "setraw"
  /\ \E ok \in BOOLEAN :
       IF ok THEN /\ terminal' = "raw"
                  /\ rawCount' = rawCount + 1
                  /\ defers' = <<"termReset">> \o defers
                  /\ pc' = "resize"
                  /\ UNCHANGED outcome
             ELSE /\ Return("panic")
                  /\ UNCHANGED <<terminal, rawCount, defers>>
  /\ UNCHANGED <<preVars, dialVars, conn, closeCount, resetCount, teardown,
                 resizeFailed, taskVars, geom>>

\* A frame reaches the socket: only the first one is remembered.
Written(f) == firstFrame' = IF firstFrame = NoFrame THEN f ELSE firstFrame

\* updateTerminalSize: samples the geometry and writes one Resize frame.
updateTerminalSize(g, ok) ==
  IF ok THEN Written(ResizeFrame(g)) ELSE UNCHANGED firstFrame

InitialResizeSkipped ==
  /\ pc = "resize"
  /\ pc' = "go"
  /\ UNCHANGED <<outcome, preVars, dialVars, conn, closeCount, termVars, defers,
                 teardown, resizeFailed, done, fireCount, task, goNext, writeMutex,
                 firstFrame, startGeom, sentGeom, silence, geom>>

\* err = updateTerminalSize(c, &writeMutex, writeWait), return on error.
InitialResize ==
  /\ pc = "resize"
  /\ \E ok \in BOOLEAN :
       /\ updateTerminalSize(geom, ok)
       /\ startGeom' = geom
       /\ sentGeom' = IF ok THEN geom ELSE sentGeom
       /\ resizeFailed' = ~ok
       /\ IF ok THEN pc' = "go" /\ UNCHANGED outcome
                ELSE Return("reported")
  /\ UNCHANGED <<preVars, dialVars, conn, closeCount, termVars, defers, teardown,
                 done, fireCount, task, goNext, writeMutex, silence, geom>>

\* The four go statements, in program order.
GoTask ==
  /\ pc = "go"
  /\ task' = [task EXCEPT ![GoOrder[goNext]] = "running"]
  /\ goNext' = goNext + 1
  /\ pc' = IF goNext = Len(GoOrder) THEN "wait" ELSE "go"
  /\ silence' = IF GoOrder[goNext] = "read" THEN 0 ELSE silence
  /\ UNCHANGED <<outcome, preVars, dialVars, conn, closeCount, termVars, defers,
                 teardown, resizeFailed, done, fireCount, writeMutex, firstFrame,
                 startGeom, sentGeom, geom>>

WaitDoneUnblocked ==
  /\ pc = "wait"
  /\ Return("none")
  /\ UNCHANGED <<preVars, dialVars, conn, closeCount, termVars, defers, teardown,
                 resizeFailed, taskVars, geom>>

\* <-done
WaitDone ==
  /\ pc = "wait"
  /\ done
  /\ Return("none")
  /\ UNCHANGED <<preVars, dialVars, conn, closeCount, termVars, defers, teardown,
                 resizeFailed, taskVars, geom>>

(* ------------------------------------------------------ deferred calls *)
Pop(name) == /\ pc = "unwind"
             /\ defers # <<>>
             /\ Head(defers) = name
             /\ defers' = Tail(defers)
             /\ teardown' = Append(teardown, name)

DeferredResetSkipped ==
  /\ Pop("termReset")
  /\ UNCHANGED <<pc, outcome, preVars, dialVars, conn, closeCount, termVars,
                 resizeFailed, taskVars, geom>>

\* defer current.Reset()
DeferredReset ==
  /\ Pop("termReset")
  /\ terminal' = "cooked"
  /\ resetCount' = resetCount + 1
  /\ UNCHANGED <<pc, outcome, preVars, dialVars, conn, closeCount, rawCount,
                 resizeFailed, taskVars, geom>>

DeferredCloseTwice ==
  /\ Pop("connClose")
  /\ conn' = "closed"
  /\ closeCount' = closeCount + 2
  /\ UNCHANGED <<pc, outcome, preVars, dialVars, termVars, resizeFailed,
                 taskVars, geom>>

\* defer c.Close()
DeferredClose ==
  /\ Pop("connClose")
  /\ conn' = "closed"
  /\ closeCount' = closeCount + 1
  /\ UNCHANGED <<pc, outcome, preVars, dialVars, termVars, resizeFailed,
                 taskVars, geom>>

\* defer resp.Body.Close()
DeferredBodyClose ==
  /\ Pop("bodyClose")
  /\ UNCHANGED <<pc, outcome, preVars, dialVars, conn, closeCount, termVars,
                 resizeFailed, taskVars, geom>>

\* Run is over and main returns with it: the process and its goroutines end.
Exit ==
  /\ pc = "unwind"
  /\ defers = <<>>
  /\ pc' = "returned"
  /\ UNCHANGED <<outcome, preVars, dialVars, conn, closeCount, termVars, defers,
                 teardown, resizeFailed, taskVars, geom>>

(* --------------------------------------------------- the concurrent tasks *)
Alive == pc # "returned"

\* A task reports its fatal failure on done and returns.
Fire(t) == /\ done' = TRUE
           /\ fireCount' = fireCount + 1
           /\ task' = [task EXCEPT ![t] = "exited"]

runVars == <<pc, outcome, preVars, dialVars, conn, closeCount, termVars, defers,
             teardown, resizeFailed, goNext, startGeom>>

\* A task sees done fired and returns.
ObserveDone(t) ==
  /\ Alive
  /\ task[t] = "running"
  /\ done
  /\ task' = [task EXCEPT ![t] = "exited"]
  /\ UNCHANGED <<runVars, done, fireCount, writeMutex, firstFrame, sentGeom,
                 silence, geom>>

\* handleTerminalResize: the geometry changed; take writeMutex to send it.
ResizeBegin ==
  /\ Alive
  /\ task["resize"] = "running"
  /\ geom # sentGeom
  /\ writeMutex = "free"
  /\ writeMutex' = "resize"
  /\ sentGeom' = geom
  /\ task' = [task EXCEPT !["resize"] = "writing"]
  /\ UNCHANGED <<runVars, done, fireCount, firstFrame, silence, geom>>

\* handleTerminalResize: the Resize frame is written, or the write fails.
ResizeEnd ==
  /\ Alive
  /\ task["resize"] = "writing"
  /\ writeMutex' = "free"
  /\ \E ok \in BOOLEAN :
       /\ ok => conn = "open"
       /\ IF ok THEN /\ Written(ResizeFrame(sentGeom))
                     /\ task' = [task EXCEPT !["resize"] = "running"]
                     /\ UNCHANGED <<done, fireCount>>
                ELSE /\ Fire("resize")
                     /\ UNCHANGED firstFrame
  /\ UNCHANGED <<runVars, sentGeom, silence, geom>>

\* writeToRemoteStdin: local input is closed.
StdinClosed ==
  /\ Alive
  /\ task["write"] = "running"
  /\ Fire("write")
  /\ UNCHANGED <<runVars, writeMutex, firstFrame, sentGeom, silence, geom>>

\* writeToRemoteStdin: bytes were read; take writeMutex to send them.
DataBegin ==
  /\ Alive
  /\ task["write"] = "running"
  /\ writeMutex = "free"
  /\ writeMutex' = "write"
  /\ task' = [task EXCEPT !["write"] = "writing"]
  /\ UNCHANGED <<runVars, done, fireCount, firstFrame, sentGeom, silence, geom>>

\* writeToRemoteStdin: the data frame is written, or the write fails.
DataEnd ==
  /\ Alive
  /\ task["write"] = "writing"
  /\ writeMutex' = "free"
  /\ \E ok \in BOOLEAN :
       /\ ok => conn = "open"
       /\ IF ok THEN /\ Written(DataFrame)
                     /\ task' = [task EXCEPT !["write"] = "running"]
                     /\ UNCHANGED <<done, fireCount>>
                ELSE /\ Fire("write")
                     /\ UNCHANGED firstFrame
  /\ UNCHANGED <<runVars, sentGeom, silence, geom>>

\* sendPingMessages: the ticker of period pingPeriod fired. The task is not given
\* writeMutex (it is called with c, done, writeWait and pingPeriod).
PingBegin ==
  /\ Alive
  /\ task["ping"] = "running"
  /\ task' = [task EXCEPT !["ping"] = "writing"]
  /\ UNCHANGED <<runVars, done, fireCount, writeMutex, firstFrame, sentGeom,
                 silence, geom>>

\* sendPingMessages: the Ping frame is written, or the write fails.
PingEnd ==
  /\ Alive
  /\ task["ping"] = "writing"
  /\ \E ok \in BOOLEAN :
       /\ ok => conn = "open"
       /\ IF ok THEN /\ Written(PingFrame)
                     /\ task' = [task EXCEPT !["ping"] = "running"]
                     /\ UNCHANGED <<done, fireCount>>
                ELSE /\ Fire("ping")
                     /\ UNCHANGED firstFrame
  /\ UNCHANGED <<runVars, writeMutex, sentGeom, silence, geom>>

\* readFromRemoteStdout: a frame arrives before the read deadline, which is
\* then refreshed.
RecvFrame ==
  /\ Alive
  /\ task["read"] = "running"
  /\ conn = "open"
  /\ silence < pongWait
  /\ silence > 0
  /\ silence' = 0
  /\ UNCHANGED <<runVars, done, fireCount, task, writeMutex, firstFrame, sentGeom, geom>>

\* readFromRemoteStdout: the read fails (the peer closed the connection).
ReadError ==
  /\ Alive
  /\ task["read"] = "running"
  /\ silence < pongWait
  /\ Fire("read")
  /\ UNCHANGED <<runVars, writeMutex, firstFrame, sentGeom, silence, geom>>

\* readFromRemoteStdout: the read deadline passed with no inbound frame.
ReadTimeout ==
  /\ Alive
  /\ task["read"] = "running"
  /\ silence >= pongWait
  /\ Fire("read")
  /\ UNCHANGED <<runVars, writeMutex, firstFrame, sentGeom, silence, geom>>

(* ------------------------------------------------------- the environment *)
\* The user resizes the local terminal window.
WindowResize ==
  /\ Alive
  /\ terminal = "raw"
  /\ \E g \in Geoms \ {geom} : geom' = g
  /\ UNCHANGED <<runVars, taskVars>>

\* One time unit passes.
Tick ==
  /\ Alive
  /\ task["read"] = "running"
  /\ silence < pongWait
  /\ silence' = silence + 1
  /\ UNCHANGED <<runVars, done, fireCount, task, writeMutex, firstFrame, sentGeom, geom>>

(* -------------------------------------------------------- specifications *)
RunStep == \/ SetMistContext \/ GetServer \/ NewRequest \/ GetToken \/ ClientDo
           \/ ReadAll \/ FirstDial \/ Redial \/ CheckDialErr \/ SetRaw
           \/ InitialResize \/ GoTask \/ WaitDone
           \/ DeferredReset \/ DeferredClose \/ DeferredBodyClose \/ Exit

TaskStep == \/ ResizeBegin \/ ResizeEnd \/ StdinClosed \/ DataBegin \/ DataEnd
            \/ PingBegin \/ PingEnd \/ RecvFrame \/ ReadError \/ ReadTimeout
            \/ (\E t \in Tasks : ObserveDone(t))

Next == RunStep \/ TaskStep \/ WindowResize \/ Tick

Spec == Init /\ [][Next]_vars

LiveSpec == Init /\ [][Next]_vars /\ WF_vars(RunStep) /\ WF_vars(ReadTimeout)

NormNext == SetMistContext \/ GetServer

NormSpec == NormInit /\ [][NormNext]_vars

(* ------------------------------------------------------------ properties *)
Ended == pc \in {"unwind", "returned"}

Started == \E t \in Tasks : task[t] # "unstarted"

Before(a, b, q) == \E i, j \in 1..Len(q) : i < j /\ q[i] = a /\ q[j] = b

\* C1: whenever raw mode was entered, the terminal is back in cooked mode
\* once the top-level routine has returned, whatever the exit path.
TerminalRestoredOnReturn ==
  (pc = "returned" /\ rawCount > 0) => terminal = "cooked"

TerminalRestoredWitness ==
  pc = "returned" /\ rawCount = 1 /\ resizeFailed /\ terminal = "cooked"

\* C2: the first frame written to the socket is the Resize frame carrying the
\* geometry sampled at session start, and it is written before any of the
\* four tasks is started.
FirstFrameIsInitialResize ==
  /\ firstFrame # NoFrame => (startGeom \in Geoms /\ firstFrame = ResizeFrame(startGeom))
  /\ Started => firstFrame # NoFrame

FirstFrameWitness ==
  /\ firstFrame = ResizeFrame(startGeom)
  /\ geom # startGeom
  /\ task["write"] = "running"
  /\ task["ping"] = "writing"

\* C3: every task inside a frame write holds the one shared write lock, so at
\* most one of the three writers is inside a frame write at a time.
WritesHoldTheLock ==
  /\ \A t \in Tasks : task[t] = "writing" => writeMutex = t
  /\ Cardinality({t \in Tasks : task[t] = "writing"}) <= 1

PreSessionFailureReported ==
  /\ (Ended /\ conn = "nil") => outcome = "reported"
  /\ rawCount > 0 => conn # "nil"

\* C6: a redirect answered by the first dial is followed by exactly one
\* re-dial with the same token; a second redirect or a failure aborts the
\* session with no further dial; at most two dials are made.
OneRedirectHop ==
  /\ [](/\ Len(dialTokens) <= 2
        /\ \A i \in 1..Len(dialTokens) : dialTokens[i] = Token
        /\ (Len(dialTokens) = 2 /\ dialErr) =>
             /\ pc \in {"dialerr", "unwind", "returned"}
             /\ rawCount = 0
             /\ Ended => outcome = "reported"
        /\ (Len(dialTokens) = 2 /\ ~dialErr /\ pc = "dialerr") => conn = "open")
  /\ [][(pc = "dial2" /\ dialResp = "redirect") =>
          (Len(dialTokens') = 2 /\ dialTokens'[2] = dialTokens[1] /\ pc' = "dialerr")]_vars
  /\ [][(pc = "dialerr" /\ ~dialErr) => pc' = "setraw"]_vars

OneRedirectHopWitness ==
  pc = "wait" /\ Len(dialTokens) = 2 /\ conn = "open"

\* C7: when no inbound frame arrives for a full pong-wait window, the read
\* fails, the top-level routine returns and the terminal is cooked again; the
\* ping period (9) is shorter than pong-wait (10).
SilenceEndsSession ==
  /\ [](pongWait = 10 /\ pingPeriod = 9 /\ pingPeriod < pongWait)
  /\ (task["read"] = "running" /\ silence = pongWait) ~>
       (pc = "returned" /\ terminal = "cooked" /\ done)

SilenceEndsSessionWitness ==
  /\ pc = "returned"
  /\ silence = pongWait
  /\ fireCount = 1
  /\ task["read"] = "exited"
  /\ \A t \in Tasks \ {"read"} : task[t] \in {"running", "writing"}
  /\ terminal = "cooked"

\* C8 as stated: raw mode is entered once before the tasks start and released
\* once, only after all four tasks have observed the shutdown signal.
RawScope ==
  /\ rawCount <= 1
  /\ resetCount <= 1
  /\ Started => rawCount = 1
  /\ (pc = "returned" /\ rawCount = 1) => resetCount = 1

ReleasedAfterAllTasksExit ==
  /\ RawScope
  /\ (resetCount > 0 /\ Started) => \A t \in Tasks : task[t] = "exited"

\* C8 as amended: raw mode is entered once before the tasks start and
\* released once, only after the shutdown signal fired or the initial resize
\* write failed; the release does not wait for the tasks.
ReleasedAfterSignal ==
  /\ RawScope
  /\ resetCount > 0 => (done \/ resizeFailed)
  /\ (resetCount > 0 /\ done) => pc \in {"unwind", "returned"}

ReleasedAfterSignalWitness ==
  /\ resetCount = 1
  /\ done
  /\ \E t \in Tasks : task[t] = "running"

\* C9 as stated: once dialled, the socket is closed exactly once on every exit
\* path, after the terminal is released, and never before the shutdown signal
\* fires or the initial resize write fails.
ClosedOnce ==
  /\ closeCount <= 1
  /\ closeCount = 1 <=> conn = "closed"
  /\ (pc = "returned" /\ conn # "nil") => closeCount = 1
  /\ (closeCount = 1 /\ rawCount > 0) => Before("termReset", "connClose", teardown)

ClosedOnlyAfterSignal ==
  /\ ClosedOnce
  /\ closeCount > 0 => (done \/ resizeFailed)

\* C9 as amended: the socket is also closed, once, when entering raw mode
\* fails and Run panics; the terminal is released before the socket is closed
\* whenever raw mode was entered.
ClosedOnlyAfterSignalOrPanic ==
  /\ ClosedOnce
  /\ closeCount > 0 => (done \/ resizeFailed \/ (outcome = "panic" /\ rawCount = 0))

ClosedOnceWitness ==
  /\ pc = "returned"
  /\ closeCount = 1
  /\ done
  /\ teardown = <<"termReset", "connClose", "bodyClose">>

\* C10: the normalized server address carries an HTTP scheme prefix and ends
\* with "/", the request path is that address followed by
\* "api/v2/machines/" + machineId + "/actions/ssh", and normalizing is
\* idempotent.
NormalizedServerHasScheme ==
  path # <<>> =>
    /\ HasPrefix(server, StrHttpScheme) \/ HasPrefix(server, StrHttpsScheme)
    /\ HasSuffix(server, StrSlash)
    /\ path = server \o StrApi \o machine \o StrAction
    /\ NormalizeServer(server) = server

====
